---- MODULE Spec2Model ----
(***************************************************************************)
(* PrintVault3D thumbnail scripts: PythonScripts/stl_thumbnail.py and      *)
(* PythonScripts/stl_thumbnail_batch.py.                                   *)
(*                                                                         *)
(* Three parts are modelled:                                               *)
(*   - load_3mf_mesh, the 3MF loader (identical in both scripts), as       *)
(*     operators over a parsed model document;                             *)
(*   - generate_thumbnail / generate_single_thumbnail, the job runner, as  *)
(*     an operator over a job and the files on disk;                       *)
(*   - process_batch and the two main() entry points, as a state machine   *)
(*     over a ProcessPoolExecutor with its futures.                        *)
(***************************************************************************)
EXTENDS Integers, Sequences, FiniteSets, TLC

VARIABLES
    doc,            \* content of the .3mf archive on disk
    xml,            \* the model document with its elements' namespaces
    lpc,            \* loader harness position: "start" | "done" | "off"
    load_result,    \* what load_3mf_mesh returned or raised
    vectors,        \* the mesh handed to the normaliser
    vectors_normalized, \* what the normaliser makes of it
    npc,            \* the normaliser's position: "off", "start", "done"
    open_figures,   \* figures the job runner's invocations returned without closing
    script,         \* which script was started
    argv,           \* its command line, --stream already split off
    stream_mode,    \* '--stream' in sys.argv
    pc,             \* position of main(): "main" | "pool" | "returned" | "exit" | "off"
    exit_code,      \* status the process exited with, NoExit while it runs
    stdout,         \* records printed to standard output, in order
    jobs,           \* the job list handed to process_batch
    max_workers,    \* size of the worker pool
    future,         \* per job: state of its future in the pool
    broken,         \* the pool lost a worker process
    yield_order,    \* jobs in the order as_completed handed out their futures
    results,        \* process_batch: results
    success_count,  \* process_batch: success_count
    summary,        \* what process_batch returned
    runs,           \* per job: how often a worker started the job runner on it
    fault           \* per job: "none", or how its worker failed it

(***************************************************************************)
(* Bounds of the model.                                                    *)
(***************************************************************************)
MaxObjects == 3
MaxVertices == 2
MaxTriangles == 1

SeqsUpTo(S, n) == UNION {[1..k -> S] : k \in 0..n}

(***************************************************************************)
(* Floating point values: a finite number, NaN, or an infinity (v is its   *)
(* sign).  Python's float() accepts "nan", "inf" and "-inf".               *)
(***************************************************************************)
Fin(n) == [k |-> "fin", v |-> n]
NaN == [k |-> "nan", v |-> 0]
PosInf == [k |-> "inf", v |-> 1]
NegInf == [k |-> "inf", v |-> -1]

IsFinite(f) == f.k = "fin"

\* Attribute texts a vertex may carry for x, y or z; "absent" is a missing
\* attribute, for which v.get('x', 0) supplies 0.
CoordTokens == {"absent", "0", "1", "2", "nan", "inf", "-inf", "abc"}

\* float(v.get('x', 0)): the parsed value, or a ValueError.
ParseFloat(tok) ==
    CASE tok = "absent" -> [ok |-> TRUE, val |-> Fin(0)]
      [] tok = "0"      -> [ok |-> TRUE, val |-> Fin(0)]
      [] tok = "1"      -> [ok |-> TRUE, val |-> Fin(1)]
      [] tok = "2"      -> [ok |-> TRUE, val |-> Fin(2)]
      [] tok = "nan"    -> [ok |-> TRUE, val |-> NaN]
      [] tok = "inf"    -> [ok |-> TRUE, val |-> PosInf]
      [] tok = "-inf"   -> [ok |-> TRUE, val |-> NegInf]
      [] OTHER          -> [ok |-> FALSE, val |-> Fin(0)]

\* Index attributes of a triangle: an integer text, a missing attribute
\* (int(None) is a TypeError) or a text int() rejects (ValueError).
IntTok(n) == [k |-> "int", v |-> n]
AbsentTok == [k |-> "absent", v |-> 0]
BadTok == [k |-> "bad", v |-> 0]

\* int(t.get('v1')): the parsed index, or an error.
ParseInt(tok) ==
    IF tok.k = "int" THEN [ok |-> TRUE, val |-> tok.v]
                     ELSE [ok |-> FALSE, val |-> 0]

\* Storing a float64 into the float32 mesh array (mesh.Mesh.dtype): integers
\* up to 2^24 in magnitude are kept, larger ones round to the float32 grid
\* (spacing 2 up to 2^25, ties to even).  Non-finite values are kept.
Float32Exact == 16777216

RoundToEven2(n) ==
    IF n % 2 = 0 THEN n
    ELSE IF ((n - 1) \div 2) % 2 = 0 THEN n - 1 ELSE n + 1

ToFloat32(f) ==
    IF f.k # "fin" THEN f
    ELSE IF f.v <= Float32Exact /\ f.v >= -Float32Exact THEN f
    ELSE IF f.v > 0 THEN Fin(RoundToEven2(f.v))
    ELSE Fin(-RoundToEven2(-f.v))

(***************************************************************************)
(* load_3mf_mesh.  A document is                                           *)
(*   [zip, model_files, xml_ok, resources : BOOLEAN,                       *)
(*    objects : Seq([type, has_mesh, vertices, triangles])]                *)
(* where type is "absent" or the text of the type attribute, vertices is   *)
(* the sequence of vertex elements <<x, y, z>> (attribute texts) and       *)
(* triangles the sequence of triangle elements <<v1, v2, v3>>.             *)
(***************************************************************************)
Raised(msg) == [ok |-> FALSE, mesh |-> <<>>, err |-> msg]
Returned(m) == [ok |-> TRUE, mesh |-> m, err |-> "none"]

\* obj.get('type', 'model')
TypeOrDefault(obj) == IF obj.type = "absent" THEN "model" ELSE obj.type

\* First loop: the first object of type "model" that has a mesh child.
\* 0 stands for object_node = None.
FirstModelWithMesh(objects) ==
    LET S == {i \in 1..Len(objects) :
                 TypeOrDefault(objects[i]) = "model" /\ objects[i].has_mesh}
    IN IF S = {} THEN 0 ELSE CHOOSE i \in S : \A j \in S : i <= j

\* Fallback loop: the first object that has a mesh child.
FirstWithMesh(objects) ==
    LET S == {i \in 1..Len(objects) : objects[i].has_mesh}
    IN IF S = {} THEN 0 ELSE CHOOSE i \in S : \A j \in S : i <= j

\* The mutant of SelectObject: the type attribute is not looked at.
SelectObject_AnyType(objects) == FirstWithMesh(objects)

SelectObject(objects) ==
    IF FirstModelWithMesh(objects) # 0 THEN FirstModelWithMesh(objects)
    ELSE FirstWithMesh(objects)

\* The vertex loop: every attribute of every vertex element goes through
\* float(); the first text it rejects raises.
VertexParses(v) == \A a \in 1..3 : ParseFloat(v[a]).ok

ParseVertex(v) == [a \in 1..3 |-> ParseFloat(v[a]).val]

ParseVertices(vs) == [i \in 1..Len(vs) |-> ParseVertex(vs[i])]

\* The triangle loop, likewise through int().
TriangleParses(t) == \A a \in 1..3 : ParseInt(t[a]).ok

ParseTriangle(t) == [a \in 1..3 |-> ParseInt(t[a]).val]

ParseTriangles(ts) == [i \in 1..Len(ts) |-> ParseTriangle(ts[i])]

\* np_vertices[f[j], :] on an array of n rows: an index in 0..n-1 reads that
\* row, an index in -n..-1 counts from the end, anything else is an
\* IndexError.  Rows are numbered from 1 here.
IndexInRange(idx, n) == idx >= -n /\ idx <= n - 1

RowOf(idx, n) == IF idx >= 0 THEN idx + 1 ELSE n + idx + 1

\* model_mesh.vectors[i][j] = np_vertices[f[j], :]
Materialize(np_vertices, np_faces) ==
    [i \in 1..Len(np_faces) |->
        [j \in 1..3 |->
            [a \in 1..3 |->
                ToFloat32(np_vertices[RowOf(np_faces[i][j], Len(np_vertices))][a])]]]

MeshOfObject(obj) ==
    IF \E i \in 1..Len(obj.vertices) : ~VertexParses(obj.vertices[i])
    THEN Raised("Failed to parse 3MF file: could not convert string to float")
    ELSE IF Len(obj.vertices) = 0
    THEN Raised("Failed to parse 3MF file: No vertices found in 3MF mesh")
    ELSE IF \E i \in 1..Len(obj.triangles) : ~TriangleParses(obj.triangles[i])
    THEN Raised("Failed to parse 3MF file: invalid triangle index attribute")
    ELSE IF Len(obj.triangles) = 0
    THEN Raised("Failed to parse 3MF file: No triangles found in 3MF mesh")
    ELSE LET np_vertices == ParseVertices(obj.vertices)
             np_faces == ParseTriangles(obj.triangles)
         IN IF \E i \in 1..Len(np_faces) : \E j \in 1..3 :
                   ~IndexInRange(np_faces[i][j], Len(np_vertices))
            THEN Raised("Failed to parse 3MF file: index is out of bounds")
            ELSE Returned(Materialize(np_vertices, np_faces))

load_3mf_mesh(d) ==
    IF ~d.zip THEN Raised("Invalid 3MF file (not a valid ZIP)")
    ELSE IF ~d.model_files
    THEN Raised("Failed to parse 3MF file: No .model file found in 3MF archive")
    ELSE IF ~d.xml_ok THEN Raised("Failed to parse 3MF file: XML parse error")
    ELSE IF ~d.resources
    THEN Raised("Failed to parse 3MF file: No resources found in 3MF file")
    ELSE IF Len(d.objects) = 0
    THEN Raised("Failed to parse 3MF file: No object found in 3MF file")
    ELSE IF SelectObject(d.objects) = 0
    THEN Raised("Failed to parse 3MF file: No object with mesh found in 3MF file")
    ELSE MeshOfObject(d.objects[SelectObject(d.objects)])

(***************************************************************************)
(* Documents the loader is run on.                                         *)
(***************************************************************************)
VertexChoices ==
    { <<"absent", "absent", "absent">>, <<"1", "0", "0">>, <<"0", "2", "1">>,
      <<"nan", "0", "0">>, <<"0", "inf", "0">>, <<"0", "0", "-inf">>,
      <<"abc", "0", "0">> }

FiniteVertexChoices == { <<"1", "0", "0">>, <<"0", "2", "1">> }

\* Index values around the ends of the vertex list: below -n, the last row
\* counted from the end, the first rows, and past the end.
IndexChoices == {-(MaxVertices + 1), -1, 0, 1, MaxVertices}

\* Triangles with any two of these in v1 and v2, or any one of them in v3.
TriangleChoices ==
    {<<IntTok(a), IntTok(b), IntTok(0)>> : a, b \in IndexChoices}
    \cup {<<IntTok(0), IntTok(0), IntTok(c)>> : c \in IndexChoices}

OddTriangleChoices ==
    { <<AbsentTok, IntTok(0), IntTok(0)>>, <<IntTok(0), BadTok, IntTok(0)>> }

NoMesh == [has_mesh |-> FALSE, vertices |-> <<>>, triangles |-> <<>>]
MeshA ==
    [has_mesh |-> TRUE,
     vertices |-> << <<"0", "0", "0">>, <<"1", "0", "0">>, <<"0", "1", "0">> >>,
     triangles |-> << <<IntTok(0), IntTok(1), IntTok(2)>> >>]
MeshB ==
    [has_mesh |-> TRUE,
     vertices |-> << <<"0", "0", "0">>, <<"2", "0", "0">>, <<"0", "2", "2">> >>,
     triangles |-> << <<IntTok(2), IntTok(1), IntTok(0)>>,
                      <<IntTok(0), IntTok(1), IntTok(2)>> >>]

Object(type, body) ==
    [type |-> type, has_mesh |-> body.has_mesh,
     vertices |-> body.vertices, triangles |-> body.triangles]

Document(objects) ==
    [zip |-> TRUE, model_files |-> TRUE, xml_ok |-> TRUE, resources |-> TRUE,
     objects |-> objects]

ObjectChoices ==
    {Object(t, b) : t \in {"absent", "model", "support"}, b \in {NoMesh, MeshA, MeshB}}

\* Documents that differ in their list of objects.
ObjectDocs == {Document(os) : os \in SeqsUpTo(ObjectChoices, MaxObjects)}

\* Documents of one object that differ in its vertex and triangle elements.
VertexDocs ==
    {Document(<<Object("model", [has_mesh |-> TRUE, vertices |-> vs, triangles |-> ts])>>) :
        vs \in SeqsUpTo(VertexChoices, MaxVertices),
        ts \in SeqsUpTo({<<IntTok(0), IntTok(0), IntTok(0)>>, <<IntTok(0), IntTok(1), IntTok(0)>>}
                          \cup OddTriangleChoices, 1)}

IndexDocs ==
    {Document(<<Object("absent", [has_mesh |-> TRUE, vertices |-> vs, triangles |-> ts])>>) :
        vs \in SeqsUpTo(FiniteVertexChoices, MaxVertices) \ {<<>>},
        ts \in SeqsUpTo(TriangleChoices, MaxTriangles)}

\* Archives that fail before any object is looked at.
BrokenDocs ==
    { [Document(<<Object("model", MeshA)>>) EXCEPT !.zip = FALSE],
      [Document(<<Object("model", MeshA)>>) EXCEPT !.model_files = FALSE],
      [Document(<<Object("model", MeshA)>>) EXCEPT !.xml_ok = FALSE],
      [Document(<<Object("model", MeshA)>>) EXCEPT !.resources = FALSE] }

LoaderDocs == ObjectDocs \cup VertexDocs \cup IndexDocs \cup BrokenDocs

(***************************************************************************)
(* Namespaces.  In the model document every element carries the namespace  *)
(* of its tag: "ms" and "ox" are the two core namespaces the loader names, *)
(* "none" is a tag without namespace and "other" any further URI.  An XML  *)
(* document is                                                             *)
(*   [root_ns, resources : Seq([ns, objects : Seq([ns, type,               *)
(*       meshes : Seq([ns, vertices : Seq([ns, elems : Seq([ns, data])]),  *)
(*                         triangles : Seq([ns, elems : Seq([ns, data])])] *)
(*   )])])]                                                                *)
(* each sequence holding, in document order, the children of one parent    *)
(* that carry one tag.                                                     *)
(***************************************************************************)
MaxNsObjects == 2

Namespaces == {"none", "ms", "ox", "other"}

\* The mutant of possible_namespaces: the OpenXML namespace is left out.
possible_namespaces_NoOpenXml(root_ns) == <<root_ns, "ms", "none">>

\* possible_namespaces = [ns_uri, <Microsoft core>, <OpenXML core>, None],
\* ns_uri being None for a root tag without namespace.
possible_namespaces(root_ns) == <<root_ns, "ms", "ox", "none">>

\* The first candidate, in list order, that some child is found under;
\* 0 when the loop over the candidates runs out.
FirstCandidate(children, namespaces) ==
    LET S == {k \in 1..Len(namespaces) :
                 \E i \in 1..Len(children) : children[i].ns = namespaces[k]}
    IN IF S = {} THEN 0 ELSE CHOOSE k \in S : \A l \in S : k <= l

\* find_element(parent, tag, namespaces), children being the children of
\* parent that carry the tag: the position of the first child under the
\* first candidate that has one, 0 for None.
find_element(children, namespaces) ==
    IF FirstCandidate(children, namespaces) = 0 THEN 0
    ELSE LET ns == namespaces[FirstCandidate(children, namespaces)]
             S == {i \in 1..Len(children) : children[i].ns = ns}
         IN CHOOSE i \in S : \A j \in S : i <= j

InNamespace(ns, e) == e.ns = ns

\* find_all_elements(parent, tag, namespaces): every child under the first
\* candidate that has one, in document order; [] when none has.
find_all_elements(children, namespaces) ==
    IF FirstCandidate(children, namespaces) = 0 THEN <<>>
    ELSE LET ns == namespaces[FirstCandidate(children, namespaces)]
             Hit(e) == InNamespace(ns, e)
         IN SelectSeq(children, Hit)

DataOf(es) == [i \in 1..Len(es) |-> es[i].data]

\* The vertex (or triangle) elements the loader reads under a mesh node:
\* those of the vertices node it finds, [] without such a node.
ElementsFound(nodes, namespaces) ==
    IF find_element(nodes, namespaces) = 0 THEN <<>>
    ELSE DataOf(find_all_elements(nodes[find_element(nodes, namespaces)].elems,
                                  namespaces))

\* What the lookups make of one object element.
ObjectFound(o, namespaces) ==
    IF find_element(o.meshes, namespaces) = 0
    THEN [type |-> o.type, has_mesh |-> FALSE, vertices |-> <<>>, triangles |-> <<>>]
    ELSE LET mesh_node == o.meshes[find_element(o.meshes, namespaces)]
         IN [type |-> o.type, has_mesh |-> TRUE,
             vertices |-> ElementsFound(mesh_node.vertices, namespaces),
             triangles |-> ElementsFound(mesh_node.triangles, namespaces)]

\* The document as the loader sees it through its lookups.
Resolve(x) ==
    LET namespaces == possible_namespaces(x.root_ns)
    IN IF find_element(x.resources, namespaces) = 0
       THEN [zip |-> TRUE, model_files |-> TRUE, xml_ok |-> TRUE,
             resources |-> FALSE, objects |-> <<>>]
       ELSE LET objects ==
                    find_all_elements(
                        x.resources[find_element(x.resources, namespaces)].objects,
                        namespaces)
            IN [zip |-> TRUE, model_files |-> TRUE, xml_ok |-> TRUE,
                resources |-> TRUE,
                objects |-> [i \in 1..Len(objects) |->
                                ObjectFound(objects[i], namespaces)]]

\* XML documents.  El tags a list of data with one namespace.
El(ns, datas) == [i \in 1..Len(datas) |-> [ns |-> ns, data |-> datas[i]]]

MeshEl(ns, vnodes, tnodes) == [ns |-> ns, vertices |-> vnodes, triangles |-> tnodes]

NodeEl(ns, elems) == [ns |-> ns, elems |-> elems]

ObjectEl(ns, type, meshes) == [ns |-> ns, type |-> type, meshes |-> meshes]

XmlDoc(root_ns, ns, objects) ==
    [root_ns |-> root_ns, resources |-> << [ns |-> ns, objects |-> objects] >>]

\* An object of the plain document with every element in namespace ns.
UniformObject(ns, o) ==
    ObjectEl(ns, o.type,
             IF o.has_mesh
             THEN << MeshEl(ns, << NodeEl(ns, El(ns, o.vertices)) >>,
                                << NodeEl(ns, El(ns, o.triangles)) >>) >>
             ELSE <<>>)

\* Documents whose elements are all in one namespace, under any root.
UniformXmlDocs ==
    {XmlDoc(r, ns, [i \in 1..Len(os) |-> UniformObject(ns, os[i])]) :
        r \in Namespaces, ns \in Namespaces,
        os \in SeqsUpTo(ObjectChoices, MaxNsObjects)}

NsVertexData == << <<"0", "0", "0">>, <<"1", "0", "0">>, <<"2", "0", "0">>,
                   <<"0", "1", "0">>, <<"0", "2", "0">> >>

FirstIndexTriangle == << <<IntTok(0), IntTok(0), IntTok(0)>> >>

\* One object whose vertex elements are each in a namespace of their own.
MixedVertexDocs ==
    {XmlDoc(r, "ms",
            << ObjectEl("ms", "model",
                 << MeshEl("ms",
                      << NodeEl("ms", [i \in 1..Len(nss) |->
                                          [ns |-> nss[i], data |-> NsVertexData[i]]]) >>,
                      << NodeEl("ms", El("ms", FirstIndexTriangle)) >>) >>) >>) :
        r \in Namespaces, nss \in SeqsUpTo(Namespaces, MaxVertices + 1) \ {<<>>}}

\* One object with two vertices nodes, each in a namespace of its own.
MixedNodeDocs ==
    {XmlDoc(r, r,
            << ObjectEl(r, "model",
                 << MeshEl(r,
                      << NodeEl(n1, El(n1, << <<"1", "0", "0">> >>)),
                         NodeEl(n2, El(n2, << <<"2", "0", "0">> >>)) >>,
                      << NodeEl(r, El(r, FirstIndexTriangle)) >>) >>) >>) :
        r \in Namespaces, n1 \in Namespaces, n2 \in Namespaces}

XmlDocs == UniformXmlDocs \cup MixedVertexDocs \cup MixedNodeDocs

NoXml == [root_ns |-> "none", resources |-> <<>>]


(***************************************************************************)
(* Files on disk and the paths a job may name.                             *)
(***************************************************************************)
InputPaths ==
    {"model.stl", "MODEL.STL", "truncated.stl", "empty.stl", "missing.stl",
     "notes.txt", "part.3mf"}

\* os.path.exists(file_path)
Exists(path) == path # "missing.stl"

\* Path(file_path).suffix
Suffix(path) ==
    CASE path = "MODEL.STL" -> ".STL"
      [] path \in {"model.stl", "truncated.stl", "empty.stl", "missing.stl"} -> ".stl"
      [] path = "part.3mf" -> ".3mf"
      [] OTHER -> ".txt"

\* str.lower() on a suffix
Lower(ext) == IF ext = ".STL" THEN ".stl" ELSE ext

V(x, y, z) == <<Fin(x), Fin(y), Fin(z)>>

\* The facets of the valid STL file.
StlMesh ==
    << <<V(0, 0, 0), V(4, 0, 0), V(0, 2, 0)>>,
       <<V(0, 0, 0), V(0, 2, 0), V(0, 0, 1)>> >>

\* mesh.Mesh.from_file(file_path)
from_file(path) ==
    CASE path \in {"model.stl", "MODEL.STL"} -> Returned(StlMesh)
      [] path = "empty.stl" -> Returned(<<>>)
      [] path = "missing.stl" -> Raised("No such file or directory: missing.stl")
      [] OTHER -> Raised("could not read the STL file")

OutputPaths == {"out/model.png", "model.png", "locked/model.png"}

\* os.path.dirname(output_path)
Dirname(path) ==
    CASE path = "out/model.png" -> "out"
      [] path = "locked/model.png" -> "locked"
      [] OTHER -> ""

\* os.makedirs(d, exist_ok=True) raises FileNotFoundError on the empty path.
MakedirsRaises(d) == d = ""

\* plt.savefig(output_path, ...) cannot write into the directory "locked".
SavefigRaises(path) == Dirname(path) = "locked"

\* plt.figure(figsize=(size/100, size/100)) rejects a negative size.
FigureRaises(size) == size < 0

DefaultSize == 256

(***************************************************************************)
(* Mesh statistics: min_, max_ and their difference, with the IEEE rules   *)
(* for NaN and the infinities.                                             *)
(***************************************************************************)
AxisValues(m, a) == {m[i][j][a] : i \in 1..Len(m), j \in 1..3}

FiniteOf(S) == {f.v : f \in {g \in S : g.k = "fin"}}

MinInt(S) == CHOOSE n \in S : \A k \in S : n <= k
MaxInt(S) == CHOOSE n \in S : \A k \in S : n >= k

FMin(S) ==
    IF NaN \in S THEN NaN
    ELSE IF NegInf \in S THEN NegInf
    ELSE IF FiniteOf(S) # {} THEN Fin(MinInt(FiniteOf(S)))
    ELSE PosInf

FMax(S) ==
    IF NaN \in S THEN NaN
    ELSE IF PosInf \in S THEN PosInf
    ELSE IF FiniteOf(S) # {} THEN Fin(MaxInt(FiniteOf(S)))
    ELSE NegInf

FSub(x, y) ==
    IF x.k = "nan" \/ y.k = "nan" THEN NaN
    ELSE IF x.k = "inf" /\ y.k = "inf"
         THEN (IF x.v = y.v THEN NaN ELSE x)
    ELSE IF x.k = "inf" THEN x
    ELSE IF y.k = "inf" THEN [k |-> "inf", v |-> -y.v]
    ELSE Fin(x.v - y.v)

\* dimensions = max_coords - min_coords
Dimensions(m) == [a \in 1..3 |-> FSub(FMax(AxisValues(m, a)), FMin(AxisValues(m, a)))]

(***************************************************************************)
(* The job runner.  A result is                                            *)
(*   [file_path, output_path, success, error, metadata]                    *)
(* with error "none" for None and metadata.state "absent" when the key is  *)
(* missing, "empty" for {} and "set" once the statistics are stored.       *)
(***************************************************************************)
NoDimensions == <<Fin(0), Fin(0), Fin(0)>>
AbsentMetadata ==
    [state |-> "absent", dimensions |-> NoDimensions, triangles |-> 0, volume |-> FALSE]
EmptyMetadata ==
    [state |-> "empty", dimensions |-> NoDimensions, triangles |-> 0, volume |-> FALSE]
Metadata(m, with_volume) ==
    [state |-> "set", dimensions |-> Dimensions(m), triangles |-> Len(m),
     volume |-> with_volume]

\* The mesh the try block loads, by extension.
LoadMesh(file_path, d) ==
    LET file_ext == Lower(Suffix(file_path))
    IN CASE file_ext = ".stl" -> from_file(file_path)
         [] file_ext = ".3mf" -> load_3mf_mesh(d)
         [] OTHER -> Raised("Unsupported file type. Only .stl and .3mf are supported.")

\* Where the try block raises: "load", "stats" (min_ of an empty mesh),
\* "figure", "makedirs", "savefig", or "none" when it runs to its end.
RaisedAt(file_path, output_path, size, d) ==
    IF ~LoadMesh(file_path, d).ok THEN "load"
    ELSE IF Len(LoadMesh(file_path, d).mesh) = 0 THEN "stats"
    ELSE IF FigureRaises(size) THEN "figure"
    ELSE IF MakedirsRaises(Dirname(output_path)) THEN "makedirs"
    ELSE IF SavefigRaises(output_path) THEN "savefig"
    ELSE "none"

\* str(e) of the exception the try block raised.
ErrorText(file_path, output_path, size, d) ==
    CASE RaisedAt(file_path, output_path, size, d) = "load" -> LoadMesh(file_path, d).err
      [] RaisedAt(file_path, output_path, size, d) = "stats" ->
            "zero-size array to reduction operation minimum which has no identity"
      [] RaisedAt(file_path, output_path, size, d) = "figure" ->
            "figure size must be positive finite"
      [] RaisedAt(file_path, output_path, size, d) = "makedirs" ->
            "No such file or directory: ''"
      [] RaisedAt(file_path, output_path, size, d) = "savefig" -> "Permission denied"
      [] OTHER -> "none"

\* result["metadata"] is assigned once the statistics are computed.
StatsDone(at) == at \in {"figure", "makedirs", "savefig", "none"}

\* plt.figure(...) has returned a figure once the try block is past it.
FigureCreated(at) == at \in {"makedirs", "savefig", "none"}

\* Figures open when generate_single_thumbnail returns: plt.close(fig) ends
\* the try block, and the except branch calls plt.close('all').
figures_generate_single_thumbnail(at) ==
    LET created == IF FigureCreated(at) THEN 1 ELSE 0
    IN IF at = "none" THEN created - 1 ELSE 0

\* Figures open when generate_thumbnail returns: plt.close(fig) ends the try
\* block, and the except branch closes nothing.
figures_generate_thumbnail(at) ==
    LET created == IF FigureCreated(at) THEN 1 ELSE 0
    IN IF at = "none" THEN created - 1 ELSE created

\* stl_thumbnail_batch.py: the result starts without a metadata key.
generate_single_thumbnail(file_path, output_path, size, d) ==
    LET at == RaisedAt(file_path, output_path, size, d)
    IN [file_path |-> file_path,
        output_path |-> output_path,
        success |-> (at = "none"),
        error |-> ErrorText(file_path, output_path, size, d),
        metadata |-> IF StatsDone(at)
                     THEN Metadata(LoadMesh(file_path, d).mesh, FALSE)
                     ELSE AbsentMetadata]

\* The mutant of generate_thumbnail: the except branch does not store the
\* error text.
generate_thumbnail_NoError(file_path, output_path, size, d) ==
    LET at == RaisedAt(file_path, output_path, size, d)
    IN [file_path |-> file_path,
        output_path |-> output_path,
        success |-> (at = "none"),
        error |-> "none",
        metadata |-> IF StatsDone(at)
                     THEN Metadata(LoadMesh(file_path, d).mesh, TRUE)
                     ELSE EmptyMetadata]

\* stl_thumbnail.py: the result starts with "metadata": {} and the
\* statistics include the volume.
generate_thumbnail(file_path, output_path, size, d) ==
    LET at == RaisedAt(file_path, output_path, size, d)
    IN [file_path |-> file_path,
        output_path |-> output_path,
        success |-> (at = "none"),
        error |-> ErrorText(file_path, output_path, size, d),
        metadata |-> IF StatsDone(at)
                     THEN Metadata(LoadMesh(file_path, d).mesh, TRUE)
                     ELSE EmptyMetadata]

(***************************************************************************)
(* Command lines.  argv is                                                 *)
(*   [mode, file_path, output_path, has_size, size, parseable, job_list]   *)
(* mode "usage" is a command line too short to run, "single" names one     *)
(* file, "batch" is --batch <jobs.json> and "batch-stdin" --batch-stdin;   *)
(* parseable says whether json.load and data.get('jobs') go through, and   *)
(* job_list is what they yield.  A job is [input, output, has_size, size]. *)
(***************************************************************************)
MaxJobs == 2
MaxWorkers == 2

Job(i, o, has_size, size) ==
    [input |-> i, output |-> o, has_size |-> has_size, size |-> size]

\* job.get('size', 256)
SizeOf(job) == IF job.has_size THEN job.size ELSE DefaultSize

JobChoices ==
    { Job("model.stl", "out/model.png", FALSE, 0),
      Job("missing.stl", "out/model.png", TRUE, 128),
      Job("model.stl", "model.png", TRUE, 128) }

ValidDoc == Document(<<Object("model", MeshA)>>)

MainDocs == {ValidDoc, [ValidDoc EXCEPT !.zip = FALSE]}

SingleArgs ==
    {[mode |-> "single", file_path |-> f, output_path |-> o, has_size |-> hs.has,
      size |-> hs.size, parseable |-> TRUE, job_list |-> <<>>] :
        f \in InputPaths, o \in OutputPaths,
        hs \in {[has |-> FALSE, size |-> 0], [has |-> TRUE, size |-> 128],
                [has |-> TRUE, size |-> -1]}}

UsageArgs ==
    {[mode |-> "usage", file_path |-> "model.stl", output_path |-> "out/model.png",
      has_size |-> FALSE, size |-> 0, parseable |-> TRUE, job_list |-> <<>>]}

BatchArgs ==
    {[mode |-> m, file_path |-> "model.stl", output_path |-> "out/model.png",
      has_size |-> FALSE, size |-> 0, parseable |-> TRUE, job_list |-> js] :
        m \in {"batch", "batch-stdin"}, js \in SeqsUpTo(JobChoices, MaxJobs)}
    \cup
    {[mode |-> m, file_path |-> "model.stl", output_path |-> "out/model.png",
      has_size |-> FALSE, size |-> 0, parseable |-> FALSE, job_list |-> <<>>] :
        m \in {"batch", "batch-stdin"}}

IsBatch(a) == a.mode \in {"batch", "batch-stdin"}

NotLoaded == [ok |-> FALSE, mesh |-> <<>>, err |-> "not loaded"]

NoResult ==
    [file_path |-> "", output_path |-> "", success |-> FALSE, error |-> "none",
     metadata |-> AbsentMetadata]

PendingFuture == [state |-> "pending", raised |-> FALSE, value |-> NoResult, error |-> "none"]

\* The usage and file-not-found replies of main().
ErrorReply(msg) == [success |-> FALSE, error |-> msg]

vars ==
    <<doc, xml, lpc, load_result, vectors, vectors_normalized, npc,
      open_figures, script, argv, stream_mode, pc, exit_code, stdout,
      jobs, max_workers, future, broken, yield_order, results, success_count,
      summary, runs, fault>>

loader_vars == <<doc, xml, lpc, load_result>>

norm_vars == <<vectors, vectors_normalized, npc>>

pool_vars ==
    <<jobs, max_workers, future, broken, yield_order, results, success_count,
      summary, runs, fault>>

(***************************************************************************)
(* The normaliser.  The mesh arrays are float32 and so is every step: a    *)
(* sum or difference is rounded to 24 significant bits (ToFloat32),        *)
(* halving is exact, and the quotient is rounded by long division.  The    *)
(* steps are taken for meshes of finite coordinates.  center and max_range *)
(* are carried doubled, which keeps them integers.                         *)
(***************************************************************************)
min_coords(m) == [a \in 1..3 |-> FMin(AxisValues(m, a))]

max_coords(m) == [a \in 1..3 |-> FMax(AxisValues(m, a))]

\* dimensions = max_coords - min_coords, in float32.
dimensions(m) == [a \in 1..3 |-> ToFloat32(FSub(max_coords(m)[a], min_coords(m)[a]))]

\* center = (min_coords + max_coords) / 2, doubled.
center2(m) == [a \in 1..3 |-> ToFloat32(Fin(min_coords(m)[a].v + max_coords(m)[a].v)).v]

\* max_range = np.max(dimensions) / 2, doubled.
max_range2(m) == MaxInt({dimensions(m)[a].v : a \in 1..3})

\* One coordinate of vectors_centered = vectors - center, doubled.
centered2(f, c2) == ToFloat32(Fin(2 * f.v - c2)).v

\* A float32 value s * m * 2^e, m of 24 bits, or zero.
Zero32 == [s |-> 0, m |-> 0, e |-> 0]

\* Long division: a quotient bit at a time until m has 25 bits, then too
\* long a quotient cut back, the bits cut remembered in sticky.
RECURSIVE Expand(_, _, _, _)
Expand(m, r, d, e) ==
    IF m >= Float32Exact THEN [m |-> m, sticky |-> r > 0, e |-> e]
    ELSE IF 2 * r >= d THEN Expand(2 * m + 1, 2 * r - d, d, e - 1)
    ELSE Expand(2 * m, 2 * r, d, e - 1)

RECURSIVE Shrink(_)
Shrink(q) ==
    IF q.m < 2 * Float32Exact THEN q
    ELSE Shrink([m |-> q.m \div 2, sticky |-> q.sticky \/ q.m % 2 = 1, e |-> q.e + 1])

\* Round to nearest, ties to even, on the 25th bit and the sticky bit.
RoundNearestEven(q) ==
    LET m24 == q.m \div 2
        up == q.m % 2 = 1 /\ (q.sticky \/ m24 % 2 = 1)
        mr == IF up THEN m24 + 1 ELSE m24
    IN IF mr = Float32Exact THEN [m |-> Float32Exact \div 2, e |-> q.e + 2]
       ELSE [m |-> mr, e |-> q.e + 1]

\* The float32 quotient n / d of integers, d > 0.
Div32(n, d) ==
    IF n = 0 THEN Zero32
    ELSE LET a == IF n < 0 THEN -n ELSE n
             q == RoundNearestEven(Shrink(Expand(a \div d, a % d, d, 0)))
         IN [s |-> IF n < 0 THEN -1 ELSE 1, m |-> q.m, e |-> q.e]

\* vectors_normalized: vectors_centered / max_range if max_range > 0,
\* vectors_centered otherwise.
normalize(m) ==
    [i \in 1..Len(m) |-> [j \in 1..3 |-> [a \in 1..3 |->
        IF max_range2(m) > 0
        THEN Div32(centered2(m[i][j][a], center2(m)[a]), max_range2(m))
        ELSE Div32(centered2(m[i][j][a], center2(m)[a]), 2)]]]

\* Meshes for the normaliser: coordinates small, and large enough for the
\* float32 sum of two of them to round.
NormCoords == {0, 1, 3, Float32Exact}

NormVertices == {V(x, y, 0) : x \in NormCoords, y \in {0, 1}}

NormTriangles == {<<p, q, q>> : p \in NormVertices, q \in NormVertices}

NormMeshes == SeqsUpTo(NormTriangles, MaxTriangles) \ {<<>>}

NormIdle ==
    /\ vectors = <<>>
    /\ vectors_normalized = <<>>
    /\ npc = "off"

PoolIdle ==
    /\ jobs = <<>>
    /\ future = <<>>
    /\ broken = FALSE
    /\ yield_order = <<>>
    /\ results = <<>>
    /\ success_count = 0
    /\ summary = <<>>
    /\ runs = <<>>
    /\ fault = <<>>

Init ==
    /\ script \in {"stl_thumbnail.py", "stl_thumbnail_batch.py"}
    /\ argv \in IF script = "stl_thumbnail.py"
                THEN SingleArgs \cup UsageArgs
                ELSE SingleArgs \cup UsageArgs \cup BatchArgs
    /\ stream_mode \in IF IsBatch(argv) THEN BOOLEAN ELSE {FALSE}
    /\ max_workers \in IF IsBatch(argv) /\ argv.parseable THEN 1..MaxWorkers ELSE {1}
    /\ doc \in IF argv.mode = "single" /\ argv.file_path = "part.3mf"
               THEN MainDocs ELSE {ValidDoc}
    /\ xml = NoXml
    /\ lpc = "off"
    /\ load_result = NotLoaded
    /\ NormIdle
    /\ pc = "main"
    /\ exit_code = -1
    /\ stdout = <<>>
    /\ PoolIdle
    /\ open_figures = 0

(***************************************************************************)
(* main() of either script on a single file.                               *)
(***************************************************************************)
\* len(sys.argv) too short: the usage reply, exit 1.
Usage ==
    /\ pc = "main"
    /\ argv.mode = "usage"
    /\ stdout' = Append(stdout, [type |-> "plain", data |-> ErrorReply("Usage")])
    /\ exit_code' = 1
    /\ pc' = "exit"
    /\ UNCHANGED <<loader_vars, norm_vars, open_figures, script, argv, stream_mode, pool_vars>>

\* os.path.exists(file_path) is false: the reply, exit 1.
FileNotFound ==
    /\ pc = "main"
    /\ argv.mode = "single"
    /\ ~Exists(argv.file_path)
    /\ stdout' = Append(stdout, [type |-> "plain", data |-> ErrorReply("File not found")])
    /\ exit_code' = 1
    /\ pc' = "exit"
    /\ UNCHANGED <<loader_vars, norm_vars, open_figures, script, argv, stream_mode, pool_vars>>

\* The figures the job runner of the started script leaves open.
SingleFigures ==
    LET size == IF argv.has_size THEN argv.size ELSE DefaultSize
        at == RaisedAt(argv.file_path, argv.output_path, size, doc)
    IN IF script = "stl_thumbnail.py"
       THEN figures_generate_thumbnail(at)
       ELSE figures_generate_single_thumbnail(at)

SingleResult ==
    LET size == IF argv.has_size THEN argv.size ELSE DefaultSize
    IN IF script = "stl_thumbnail.py"
       THEN generate_thumbnail(argv.file_path, argv.output_path, size, doc)
       ELSE generate_single_thumbnail(argv.file_path, argv.output_path, size, doc)

\* The mutant of ExitStatus: the script always exits with 0.
ExitStatus_Zero(success) == 0

\* sys.exit(0 if result["success"] else 1)
ExitStatus(success) == IF success THEN 0 ELSE 1

\* The conversion of the one file, its result printed, and the exit.
RunSingle ==
    /\ pc = "main"
    /\ argv.mode = "single"
    /\ Exists(argv.file_path)
    /\ stdout' = Append(stdout, [type |-> "plain", data |-> SingleResult])
    /\ exit_code' = ExitStatus(SingleResult.success)
    /\ open_figures' = open_figures + SingleFigures
    /\ pc' = "exit"
    /\ UNCHANGED <<loader_vars, norm_vars, script, argv, stream_mode, pool_vars>>

(***************************************************************************)
(* main() of stl_thumbnail_batch.py on a job list, and process_batch.      *)
(***************************************************************************)
\* json.load (or reading the jobs out of the data) raises: the exception
\* leaves main() and the interpreter exits with status 1.
ParseFails ==
    /\ pc = "main"
    /\ IsBatch(argv)
    /\ ~argv.parseable
    /\ exit_code' = 1
    /\ pc' = "exit"
    /\ UNCHANGED <<loader_vars, norm_vars, open_figures, script, argv, stream_mode, stdout, pool_vars>>

\* process_batch is entered: the pool is created and every job submitted,
\* one future per job.
Submit ==
    /\ pc = "main"
    /\ IsBatch(argv)
    /\ argv.parseable
    /\ jobs' = argv.job_list
    /\ future' = [j \in 1..Len(argv.job_list) |-> PendingFuture]
    /\ runs' = [j \in 1..Len(argv.job_list) |-> 0]
    /\ fault' = [j \in 1..Len(argv.job_list) |-> "none"]
    /\ results' = <<>>
    /\ success_count' = 0
    /\ pc' = "pool"
    /\ UNCHANGED <<loader_vars, norm_vars, open_figures, script, argv, stream_mode, exit_code, stdout,
                   max_workers, broken, yield_order, summary>>

Running == {j \in 1..Len(jobs) : future[j].state = "running"}
Pending == {j \in 1..Len(jobs) : future[j].state = "pending"}
Finished == {j \in 1..Len(jobs) : future[j].state = "finished"}
Yielded == {yield_order[k] : k \in 1..Len(yield_order)}

\* A free worker takes the next call off the queue, in submission order, and
\* starts the job runner on it.
Start(j) ==
    /\ pc = "pool"
    /\ ~broken
    /\ j \in Pending
    /\ \A k \in Pending : j <= k
    /\ Cardinality(Running) < max_workers
    /\ future' = [future EXCEPT ![j].state = "running"]
    /\ runs' = [runs EXCEPT ![j] = @ + 1]
    /\ UNCHANGED <<loader_vars, norm_vars, open_figures, script, argv, stream_mode, pc, exit_code, stdout,
                   jobs, max_workers, broken, yield_order, results, success_count,
                   summary, fault>>

\* The job runner returns and its result is set on the future.
Return(j) ==
    /\ pc = "pool"
    /\ j \in Running
    /\ future' = [future EXCEPT ![j] =
                    [state |-> "finished", raised |-> FALSE,
                     value |-> generate_single_thumbnail(
                                   jobs[j].input, jobs[j].output, SizeOf(jobs[j]), doc),
                     error |-> "none"]]
    /\ open_figures' = open_figures +
           figures_generate_single_thumbnail(
               RaisedAt(jobs[j].input, jobs[j].output, SizeOf(jobs[j]), doc))
    /\ UNCHANGED <<loader_vars, norm_vars, script, argv, stream_mode, pc, exit_code, stdout,
                   jobs, max_workers, broken, yield_order, results, success_count,
                   summary, runs, fault>>

\* The call fails in the worker outside the job runner's try block: the
\* exception is set on this one future.
Raise(j) ==
    /\ pc = "pool"
    /\ j \in Running
    /\ future' = [future EXCEPT ![j] =
                    [state |-> "finished", raised |-> TRUE, value |-> NoResult,
                     error |-> "exception in worker"]]
    /\ fault' = [fault EXCEPT ![j] = "raise"]
    /\ UNCHANGED <<loader_vars, norm_vars, open_figures, script, argv, stream_mode, pc, exit_code, stdout,
                   jobs, max_workers, broken, yield_order, results, success_count,
                   summary, runs>>

\* What the executor does to its futures when a worker process is lost: the
\* pool is broken, every future that has not finished gets BrokenProcessPool
\* and the remaining workers are terminated.
BreakPool(fs) ==
    [k \in DOMAIN fs |->
        IF fs[k].state = "finished" THEN fs[k]
        ELSE [state |-> "finished", raised |-> TRUE, value |-> NoResult,
              error |-> "BrokenProcessPool"]]

\* The worker process running job j dies.
Die(j) ==
    /\ pc = "pool"
    /\ j \in Running
    /\ future' = BreakPool(future)
    /\ broken' = TRUE
    /\ fault' = [fault EXCEPT ![j] = "die"]
    /\ UNCHANGED <<loader_vars, norm_vars, open_figures, script, argv, stream_mode, pc, exit_code, stdout,
                   jobs, max_workers, yield_order, results, success_count,
                   summary, runs>>

\* The except branch of the loop: the failed result built from the job.
err_result(job, e) ==
    [file_path |-> job.input, output_path |-> job.output, success |-> FALSE,
     error |-> e, metadata |-> AbsentMetadata]

\* What the loop body appends for a finished future.
Collected(j) ==
    IF future[j].raised THEN err_result(jobs[j], future[j].error)
    ELSE future[j].value

\* What the loop body prints for a result.
Emitted(stream, r) == IF stream THEN << [type |-> "result", data |-> r] >> ELSE <<>>

\* The mutant of Succeeded: every returned result is counted.
Succeeded_AnyResult(j) == ~future[j].raised

\* if result.get('success', False), reached only when future.result() returned.
Succeeded(j) == ~future[j].raised /\ future[j].value.success

\* One round of `for future in as_completed(future_to_job)`.
Collect(j) ==
    /\ pc = "pool"
    /\ j \in Finished \ Yielded
    /\ yield_order' = Append(yield_order, j)
    /\ results' = Append(results, Collected(j))
    /\ success_count' = IF Succeeded(j) THEN success_count + 1 ELSE success_count
    /\ stdout' = stdout \o Emitted(stream_mode, Collected(j))
    /\ UNCHANGED <<loader_vars, norm_vars, open_figures, script, argv, stream_mode, pc, exit_code,
                   jobs, max_workers, future, broken, summary, runs, fault>>

\* The summary dict of process_batch.
Summary(js, count, rs) ==
    [success |-> TRUE, total |-> Len(js), succeeded |-> count,
     failed |-> Len(js) - count, results |-> rs]

\* What process_batch prints once the summary is built.
EmittedSummary(stream, sm) ==
    IF stream THEN << [type |-> "summary", data |-> sm] >> ELSE <<>>

\* The mutant of Exhausted: the loop is left after the first future.
Exhausted_AfterFirst == Yielded # {} \/ jobs = <<>>

\* The for loop ends once as_completed has handed out every future.
Exhausted == Yielded = 1..Len(jobs)

\* Leaving the with block runs executor.shutdown(wait=True): no worker is
\* still on a job.
PoolShutDown == Running = {}

\* as_completed is exhausted, the with block has shut the pool down, the
\* summary is built, printed when streaming, and returned.
Summarise ==
    /\ pc = "pool"
    /\ Exhausted
    /\ PoolShutDown
    /\ summary' = << Summary(jobs, success_count, results) >>
    /\ stdout' = stdout \o EmittedSummary(stream_mode, Summary(jobs, success_count, results))
    /\ pc' = "returned"
    /\ UNCHANGED <<loader_vars, norm_vars, open_figures, script, argv, stream_mode, exit_code,
                   jobs, max_workers, future, broken, yield_order, results,
                   success_count, runs, fault>>

\* The mutant of Printed: main() prints the summary in either mode.
Printed_Always(stream, sm) == << [type |-> "plain", data |-> sm] >>

\* main() prints the summary unless streaming:
\* if not stream_mode: print(json.dumps(result))
Printed(stream, sm) == IF stream THEN <<>> ELSE << [type |-> "plain", data |-> sm] >>

\* Back in main(): the output and sys.exit(0 if result['success'] else 1).
Finish ==
    /\ pc = "returned"
    /\ stdout' = stdout \o Printed(stream_mode, summary[1])
    /\ exit_code' = ExitStatus(summary[1].success)
    /\ pc' = "exit"
    /\ UNCHANGED <<loader_vars, norm_vars, open_figures, script, argv, stream_mode, pool_vars>>

Next ==
    \/ Usage
    \/ FileNotFound
    \/ RunSingle
    \/ ParseFails
    \/ Submit
    \/ \E j \in 1..Len(jobs) : Start(j)
    \/ \E j \in 1..Len(jobs) : Return(j)
    \/ \E j \in 1..Len(jobs) : Raise(j)
    \/ \E j \in 1..Len(jobs) : Die(j)
    \/ \E j \in 1..Len(jobs) : Collect(j)
    \/ Summarise
    \/ Finish

Spec == Init /\ [][Next]_vars

(***************************************************************************)
(* The batch command under fair scheduling: workers finish the jobs they   *)
(* started, one way or another, and the main process keeps collecting.     *)
(***************************************************************************)
\* Job lists of one job that succeeds and one that fails: which step a job
\* fails at makes no difference to the scheduling.
FairJobChoices ==
    { Job("model.stl", "out/model.png", FALSE, 0),
      Job("missing.stl", "out/model.png", TRUE, 128) }

InitBatch ==
    /\ Init
    /\ script = "stl_thumbnail_batch.py"
    /\ argv.mode = "batch"
    /\ \A k \in 1..Len(argv.job_list) : argv.job_list[k] \in FairJobChoices

NextBatch ==
    \/ ParseFails
    \/ Submit
    \/ \E j \in 1..Len(jobs) : Start(j)
    \/ \E j \in 1..Len(jobs) : Return(j)
    \/ \E j \in 1..Len(jobs) : Raise(j)
    \/ \E j \in 1..Len(jobs) : Die(j)
    \/ \E j \in 1..Len(jobs) : Collect(j)
    \/ Summarise
    \/ Finish

FairSpec == InitBatch /\ [][NextBatch]_vars /\ WF_vars(NextBatch)

(***************************************************************************)
(* The loader on its own, over documents of every shape.                   *)
(***************************************************************************)
InitLoad ==
    /\ doc \in LoaderDocs
    /\ xml = NoXml
    /\ lpc = "start"
    /\ load_result = NotLoaded
    /\ NormIdle
    /\ script = "stl_thumbnail.py"
    /\ argv \in UsageArgs
    /\ stream_mode = FALSE
    /\ max_workers = 1
    /\ pc = "off"
    /\ exit_code = -1
    /\ stdout = <<>>
    /\ PoolIdle
    /\ open_figures = 0

Load ==
    /\ lpc = "start"
    /\ load_result' = load_3mf_mesh(doc)
    /\ lpc' = "done"
    /\ UNCHANGED <<doc, xml, norm_vars, open_figures, script, argv, stream_mode, pc, exit_code, stdout, pool_vars>>

NextLoad == Load

SpecLoad == InitLoad /\ [][NextLoad]_vars

(***************************************************************************)
(* The loader over model documents, namespaces included.                   *)
(***************************************************************************)
InitXml ==
    /\ xml \in XmlDocs
    /\ doc = ValidDoc
    /\ lpc = "start"
    /\ load_result = NotLoaded
    /\ NormIdle
    /\ script = "stl_thumbnail.py"
    /\ argv \in UsageArgs
    /\ stream_mode = FALSE
    /\ max_workers = 1
    /\ pc = "off"
    /\ exit_code = -1
    /\ stdout = <<>>
    /\ PoolIdle
    /\ open_figures = 0

\* load_3mf_mesh on the XML document: the lookups, then the rest.
LoadXml ==
    /\ lpc = "start"
    /\ doc' = Resolve(xml)
    /\ load_result' = load_3mf_mesh(Resolve(xml))
    /\ lpc' = "done"
    /\ UNCHANGED <<xml, norm_vars, open_figures, script, argv, stream_mode, pc, exit_code, stdout, pool_vars>>

NextXml == LoadXml

SpecXml == InitXml /\ [][NextXml]_vars

(***************************************************************************)
(* The normaliser on its own, over meshes of finite coordinates.           *)
(***************************************************************************)
InitNorm ==
    /\ vectors \in NormMeshes
    /\ vectors_normalized = <<>>
    /\ npc = "start"
    /\ doc = ValidDoc
    /\ xml = NoXml
    /\ lpc = "off"
    /\ load_result = NotLoaded
    /\ script = "stl_thumbnail.py"
    /\ argv \in UsageArgs
    /\ stream_mode = FALSE
    /\ max_workers = 1
    /\ pc = "off"
    /\ exit_code = -1
    /\ stdout = <<>>
    /\ PoolIdle
    /\ open_figures = 0

Normalize ==
    /\ npc = "start"
    /\ vectors_normalized' = normalize(vectors)
    /\ npc' = "done"
    /\ UNCHANGED <<vectors, loader_vars, open_figures, script, argv, stream_mode, pc, exit_code,
                   stdout, pool_vars>>

NextNorm == Normalize

SpecNorm == InitNorm /\ [][NextNorm]_vars

(***************************************************************************)
(* Properties of process_batch and main().                                 *)
(***************************************************************************)
SuccessesIn(rs) == Cardinality({k \in 1..Len(rs) : rs[k].success})
FailuresIn(rs) == Cardinality({k \in 1..Len(rs) : ~rs[k].success})

\* C1: whatever the jobs did (returned a success, returned a failure, had
\* their future raise), the summary process_batch returns has
\* succeeded + failed = total = len(results), with total the length of the
\* job list, succeeded the number of results with success true and failed
\* the number with success false.
C1_SummaryCounts ==
    summary # <<>> =>
        /\ summary[1].total = Len(jobs)
        /\ summary[1].total = Len(summary[1].results)
        /\ summary[1].succeeded = SuccessesIn(summary[1].results)
        /\ summary[1].failed = FailuresIn(summary[1].results)
        /\ summary[1].succeeded + summary[1].failed = summary[1].total

\* A summary over a success and a job whose future raised.
C1_Witness ==
    /\ summary # <<>>
    /\ summary[1].succeeded = 1
    /\ summary[1].failed = 1
    /\ \E j \in 1..Len(jobs) : fault[j] # "none"

\* What the job runner makes of job j when nothing else interferes.
OwnOutcome(j) ==
    generate_single_thumbnail(jobs[j].input, jobs[j].output, SizeOf(jobs[j]), doc)

\* C2: a fault in one job (its worker process dying included) touches that
\* job alone: the faulting job is recorded as one failed result, and every
\* other job is run and gets the result it would have had without the
\* faulting job in the batch.
C2_FaultIsolated ==
    \A k \in 1..Len(results) :
        /\ fault[yield_order[k]] # "none" => ~results[k].success
        /\ fault[yield_order[k]] = "none" =>
              /\ runs[yield_order[k]] = 1
              /\ results[k] = OwnOutcome(yield_order[k])

\* C3: by the time the summary is returned every job of the list has been
\* run exactly once and results holds exactly one record per job, each with
\* the job's input and output paths, whether the job's future returned or
\* raised.
C3_EachJobOnce ==
    summary # <<>> =>
        /\ \A j \in 1..Len(jobs) : runs[j] = 1
        /\ Len(summary[1].results) = Len(jobs)
        /\ \A j \in 1..Len(jobs) :
              Cardinality({k \in 1..Len(yield_order) : yield_order[k] = j}) = 1
        /\ \A k \in 1..Len(summary[1].results) :
              /\ summary[1].results[k].file_path = jobs[yield_order[k]].input
              /\ summary[1].results[k].output_path = jobs[yield_order[k]].output

\* The results the job runner itself returned, in either script: the one
\* main() printed for a single file, and the value of every future that
\* returned.
RunnerResults ==
    (IF pc = "exit" /\ argv.mode = "single" /\ Exists(argv.file_path)
     THEN {stdout[1].data} ELSE {})
    \cup {future[j].value : j \in {i \in 1..Len(jobs) :
                                     future[i].state = "finished" /\ ~future[i].raised}}

ResultRecords(rs) == [k \in 1..Len(rs) |-> [type |-> "result", data |-> rs[k]]]

ExpectedSummary ==
    [success |-> TRUE, total |-> Len(jobs), succeeded |-> SuccessesIn(results),
     failed |-> FailuresIn(results), results |-> results]

\* C5: when streaming, process_batch prints one "result" record per job as
\* the job is collected, in the order of results, then one "summary" record
\* after all of them; when not streaming it prints nothing; the summary it
\* returns is the same in both modes, and the batch command as a whole
\* writes the summary exactly once.
C5_Streaming ==
    pc \in {"pool", "returned", "exit"} /\ IsBatch(argv) /\ argv.parseable =>
        /\ stream_mode /\ summary = <<>> => stdout = ResultRecords(results)
        /\ stream_mode /\ summary # <<>> =>
              stdout = ResultRecords(results)
                          \o << [type |-> "summary", data |-> summary[1]] >>
        /\ ~stream_mode /\ pc # "exit" => stdout = <<>>
        /\ ~stream_mode /\ pc = "exit" =>
              stdout = << [type |-> "plain", data |-> summary[1]] >>
        /\ summary # <<>> => summary[1] = ExpectedSummary

\* A streamed batch that finished its second job first.
C5_Witness ==
    /\ stream_mode
    /\ pc = "exit"
    /\ yield_order = <<2, 1>>
    /\ Len(stdout) = 3

\* C6: the summary is built only once every job has completed or failed, no
\* job pending or running, and with workers that finish what they start it
\* is eventually built.
C6_Barrier ==
    /\ [](summary # <<>> => Finished = 1..Len(jobs) /\ Yielded = 1..Len(jobs))
    /\ (pc = "pool") ~> (summary # <<>>)

\* A summary built over two jobs.
C6_Witness ==
    /\ summary # <<>>
    /\ Len(jobs) = 2
    /\ Finished = {1, 2}

\* C7: a single-file run exits with 0 exactly when the conversion succeeded;
\* a batch run exits non-zero only when the job list could not be parsed,
\* and with 0 for every parsed job list however many jobs failed, the
\* failures being counted in the summary.
C7_ExitStatus ==
    pc = "exit" =>
        /\ exit_code \in {0, 1}
        /\ argv.mode = "single" =>
              (exit_code = 0 <=> stdout[Len(stdout)].data.success)
        /\ argv.mode = "single" =>
              (exit_code = 0 <=>
                  /\ Exists(argv.file_path)
                  /\ RaisedAt(argv.file_path, argv.output_path,
                              IF argv.has_size THEN argv.size ELSE DefaultSize,
                              doc) = "none")
        /\ IsBatch(argv) => (exit_code # 0 <=> ~argv.parseable)
        /\ IsBatch(argv) /\ argv.parseable =>
              /\ exit_code = 0
              /\ summary[1].failed = FailuresIn(results)

\* A batch in which every job failed and that exited with 0.
C7_Witness ==
    /\ pc = "exit"
    /\ IsBatch(argv)
    /\ exit_code = 0
    /\ Len(jobs) = 2
    /\ summary[1].failed = 2

(***************************************************************************)
(* Properties of load_3mf_mesh.                                            *)
(***************************************************************************)
\* The object the loader is to read, once the archive, the XML and the
\* resources are in order.
ReachesObjects == doc.zip /\ doc.model_files /\ doc.xml_ok /\ doc.resources

Qualifies(obj) == obj.type \in {"absent", "model"} /\ obj.has_mesh

\* The object reaches the triangle materialisation: its vertex and triangle
\* elements parse and neither list is empty.
Parses(obj) ==
    /\ Len(obj.vertices) > 0
    /\ Len(obj.triangles) > 0
    /\ \A i \in 1..Len(obj.vertices) : VertexParses(obj.vertices[i])
    /\ \A i \in 1..Len(obj.triangles) : TriangleParses(obj.triangles[i])

\* C8: an index outside 0 .. vertexCount-1 (negative, or vertexCount and
\* above) makes the loader fail without a mesh; a mesh is returned only when
\* every index lies in 0 .. vertexCount-1, and then triangle i has the
\* vertices at its three indices, in order.
C8_IndexBounds ==
    lpc = "done" /\ ReachesObjects /\ SelectObject(doc.objects) # 0 =>
        LET obj == doc.objects[SelectObject(doc.objects)]
            n == Len(obj.vertices)
        IN Parses(obj) =>
            /\ (\E i \in 1..Len(obj.triangles) : \E j \in 1..3 :
                    obj.triangles[i][j].v < 0 \/ obj.triangles[i][j].v >= n)
                  => ~load_result.ok /\ load_result.mesh = <<>>
            /\ load_result.ok =>
                  /\ Len(load_result.mesh) = Len(obj.triangles)
                  /\ \A i \in 1..Len(obj.triangles) : \A j \in 1..3 :
                        /\ obj.triangles[i][j].v \in 0..(n - 1)
                        /\ load_result.mesh[i][j] =
                              ParseVertex(obj.vertices[obj.triangles[i][j].v + 1])

NonFinite(v) == \E a \in 1..3 : ~IsFinite(v[a])

\* C9: a document whose parsed vertex coordinates include a NaN or an
\* infinity does not load, and no mesh the loader returns has a non-finite
\* coordinate.
C9_RejectsNonFinite ==
    lpc = "done" /\ ReachesObjects /\ SelectObject(doc.objects) # 0 =>
        LET obj == doc.objects[SelectObject(doc.objects)]
        IN /\ (Parses(obj) /\ \E i \in 1..Len(obj.vertices) :
                                  NonFinite(ParseVertex(obj.vertices[i])))
                 => ~load_result.ok
           /\ load_result.ok =>
                 \A i \in 1..Len(load_result.mesh) : \A j \in 1..3 :
                     ~NonFinite(load_result.mesh[i][j])

\* C10: the loader reads the first object, in document order, whose type is
\* absent or "model" and which has a mesh; without such an object, the first
\* object that has a mesh, whatever its type; without any, it fails.  In
\* particular [support+mesh, model+mesh] reads the second object and
\* [support+mesh] reads the first.
C10_ObjectSelection ==
    lpc = "done" /\ ReachesObjects /\ Len(doc.objects) > 0 =>
        LET objs == doc.objects
            n == Len(doc.objects)
        IN /\ \A e \in 1..n :
                 (Qualifies(objs[e]) /\ \A i \in 1..(e - 1) : ~Qualifies(objs[i]))
                    => load_result = MeshOfObject(objs[e])
           /\ \A e \in 1..n :
                 (/\ \A i \in 1..n : ~Qualifies(objs[i])
                  /\ objs[e].has_mesh
                  /\ \A i \in 1..(e - 1) : ~objs[i].has_mesh)
                    => load_result = MeshOfObject(objs[e])
           /\ (\A i \in 1..n : ~objs[i].has_mesh) =>
                 /\ ~load_result.ok
                 /\ load_result.err =
                       "Failed to parse 3MF file: No object with mesh found in 3MF file"
           /\ objs = <<Object("support", MeshA), Object("model", MeshB)>> =>
                 load_result = MeshOfObject(Object("model", MeshB))
           /\ objs = <<Object("support", MeshA)>> =>
                 load_result = MeshOfObject(Object("support", MeshA))

\* The support object comes first and the model object is the one read.
C10_Witness ==
    /\ lpc = "done"
    /\ doc.objects = <<Object("support", MeshA), Object("model", MeshB)>>
    /\ load_result.ok
    /\ load_result = MeshOfObject(Object("model", MeshB))
    /\ load_result # MeshOfObject(Object("support", MeshA))


(***************************************************************************)
(* C11.  Namespace tolerance.                                              *)
(***************************************************************************)
ToleratedNamespaces == {"none", "ms", "ox"}

\* The document with the namespaces taken off: the first node of each kind
\* and all of its children, whatever their namespaces.
StripNodes(nodes) ==
    IF nodes = <<>> THEN <<>> ELSE DataOf(nodes[1].elems)

StripObject(o) ==
    IF o.meshes = <<>>
    THEN [type |-> o.type, has_mesh |-> FALSE, vertices |-> <<>>, triangles |-> <<>>]
    ELSE [type |-> o.type, has_mesh |-> TRUE,
          vertices |-> StripNodes(o.meshes[1].vertices),
          triangles |-> StripNodes(o.meshes[1].triangles)]

Strip(x) ==
    [zip |-> TRUE, model_files |-> TRUE, xml_ok |-> TRUE,
     resources |-> TRUE,
     objects |-> [i \in 1..Len(x.resources[1].objects) |->
                     StripObject(x.resources[1].objects[i])]]

\* In a uniform document the resources element tells the namespace of all.
IsUniformIn(x, ns) == x \in UniformXmlDocs /\ x.resources[1].ns = ns

\* The candidate list of the lookups, as the specification gives it.
Candidates == <<xml.root_ns, "ms", "ox", "none">>

Under(es, ns) == {i \in 1..Len(es) : es[i].ns = ns}

\* The children, in document order, of the first candidate that has any.
FirstFound(es) ==
    LET K == {k \in 1..4 : Under(es, Candidates[k]) # {}}
    IN IF K = {} THEN <<>>
       ELSE LET k == CHOOSE k \in K : \A l \in K : k <= l
                Hit(e) == e.ns = Candidates[k]
            IN SelectSeq(es, Hit)

VertexElements(x) == x.resources[1].objects[1].meshes[1].vertices[1].elems

VerticesNodes(x) == x.resources[1].objects[1].meshes[1].vertices

\* C11: once the loader has run, (a) a document whose elements are all in no
\* namespace, in the Microsoft core namespace or in the OpenXML core
\* namespace has parsed to what its vertex/triangle data parse to without
\* namespaces, so the three parse alike; (b) where the vertex elements are in
\* several namespaces the loader has read exactly those of the first of
\* (root-declared, Microsoft core, OpenXML core, none) that has any, and
\* none at all when they are under no one of these four; (c) of two vertices
\* nodes the loader has read the one of the first such candidate.
C11_NamespaceTolerance ==
    lpc = "done" /\ xml # NoXml =>
        /\ (\E ns \in ToleratedNamespaces : IsUniformIn(xml, ns)) =>
               load_result = load_3mf_mesh(Strip(xml))
        /\ xml \in MixedVertexDocs =>
               doc.objects[1].vertices = DataOf(FirstFound(VertexElements(xml)))
        /\ xml \in MixedNodeDocs =>
               doc.objects[1].vertices =
                   (IF FirstFound(VerticesNodes(xml)) = <<>> THEN <<>>
                    ELSE DataOf(FirstFound(VerticesNodes(xml))[1].elems))

\* An OpenXML document under a root that declares no namespace has loaded,
\* and so has a document whose vertex elements are in several namespaces.
C11_Witness ==
    /\ lpc = "done"
    /\ IsUniformIn(xml, "ox")
    /\ xml.root_ns = "none"
    /\ load_result.ok
    /\ load_result = load_3mf_mesh(Strip(xml))


(***************************************************************************)
(* C12.  Normalisation.                                                    *)
(***************************************************************************)
One32 == [s |-> 1, m |-> Float32Exact \div 2, e |-> -23]

MinusOne32 == [s |-> -1, m |-> Float32Exact \div 2, e |-> -23]

\* |q| <= 1 for a float32 value q.
WithinUnit(q) ==
    \/ q = Zero32
    \/ q.e < -23
    \/ q.m = Float32Exact \div 2 /\ q.e = -23

NormalizedCoords(a) ==
    {vectors_normalized[i][j][a] : i \in 1..Len(vectors_normalized), j \in 1..3}

IsDominant(a) == dimensions(vectors)[a].v = max_range2(vectors)

\* C12: once the normaliser has run on a mesh, if halfExtent > 0 every
\* normalised coordinate lies within [-1, 1] on every axis and -1 and 1 are
\* both reached on the dominant axis; if halfExtent is 0 every vertex is at
\* the origin.
C12_Normalization ==
    npc = "done" =>
        IF max_range2(vectors) > 0
        THEN /\ \A a \in 1..3 : \A q \in NormalizedCoords(a) : WithinUnit(q)
             /\ \A a \in 1..3 : IsDominant(a) =>
                    One32 \in NormalizedCoords(a) /\ MinusOne32 \in NormalizedCoords(a)
        ELSE \A a \in 1..3 : NormalizedCoords(a) = {Zero32}


(***************************************************************************)
(* C13.  Release of the figure.                                            *)
(***************************************************************************)
\* C13: whenever an invocation of the job runner (generate_thumbnail or
\* generate_single_thumbnail) has returned, on success or on a failure after
\* the figure was created, it has closed its figure: no figure is left open.
C13_FigureReleased == open_figures = 0


(***************************************************************************)
(* C14.  Creation of the output directory.                                 *)
(***************************************************************************)
\* The input is a valid mesh, the figure can be made and the image can be
\* written once its directory is there.
Renderable(file_path, output_path, size) ==
    /\ LoadMesh(file_path, doc).ok
    /\ Len(LoadMesh(file_path, doc).mesh) > 0
    /\ ~FigureRaises(size)
    /\ ~SavefigRaises(output_path)

\* C14: a job runner invocation on a valid mesh has succeeded whatever the
\* form of its output path, a bare file name such as "model.png" included:
\* the parent directory was made where absent and the image written.
C14_OutputDirectory ==
    /\ (pc = "exit" /\ argv.mode = "single" /\ stdout # <<>>
        /\ Renderable(argv.file_path, argv.output_path,
                      IF argv.has_size THEN argv.size ELSE DefaultSize))
           => stdout[1].data.success
    /\ \A j \in 1..Len(future) :
           (future[j].state = "finished" /\ ~future[j].raised
            /\ Renderable(jobs[j].input, jobs[j].output, SizeOf(jobs[j])))
               => future[j].value.success

====
